---- MODULE Spec2Model ----
(***************************************************************************)
(* Model of src/src/Genes.h (MultiNEAT): the Gene base class with its      *)
(* trait bag and the four trait operators, and the LinkGene and NeuronGene *)
(* classes.                                                                *)
(*                                                                         *)
(* A double is modelled on a fixed-point grid: the integer u stands for    *)
(* the real number u / RealUnit.  An int is a TLA+ integer; the tables     *)
(* keep every int far from the limits of a C++ int.                        *)
(***************************************************************************)
EXTENDS Integers, Sequences, FiniteSets, TLC

\* ---------------------------------------------------------------- bounds
\* Grid steps per 1.0 of a double; also the resolution of RandFloat().
RealUnit == 2
\* The Int trait "i" of TableInt lies in [-IntLow, IntMax].
IntLow == 2
IntMax == 1
\* mut_power of the Int trait "i" of TableInt.
IntPower == 1
\* Largest innovation id handed to a LinkGene constructor.
MaxInnov == 3

IntMin == -IntLow

\* ---------------------------------------------------------------- values
\* Trait names; std::map iterates its keys in this (lexicographic) order.
NameOrder == <<"b", "f", "i", "s", "x">>

Names == {NameOrder[k] : k \in 1..Len(NameOrder)}

\* TraitType: a variant over int, bool, double, std::string.  One field per
\* alternative; the fields of the alternatives not held are zero.
TraitValue(t, i, b, d, s) == [type |-> t, i |-> i, b |-> b, d |-> d, s |-> s]

IntVal(n) == TraitValue("int", n, FALSE, 0, "")

BoolVal(v) == TraitValue("bool", 0, v, 0, "")

DoubleVal(u) == TraitValue("double", 0, FALSE, u, "")

StringVal(str) == TraitValue("string", 0, FALSE, 0, str)

\* Marks a name that is not a key of the map.
Absent == TraitValue("none", 0, FALSE, 0, "")

\* A default-constructed TraitType holds its first alternative, int 0.
DefaultTrait == IntVal(0)

\* A std::map<std::string, Trait> with no keys.
EmptyBag == [n \in Names |-> Absent]

Keys(bag) == {n \in Names : bag[n].type # "none"}

\* m_Traits[name]: operator[] inserts a default Trait when the key is absent.
Subscript(bag, n) == IF bag[n].type = "none" THEN DefaultTrait ELSE bag[n]

\* ---------------------------------------------------------------- tables
\* TraitParameters with its m_Details (Int/Float/StringTraitParameters).
\* Probabilities and double bounds are in grid units.
TraitParameters(t, prob, lo, hi, power, rprob, set, probs) ==
    [type |-> t, m_MutationProb |-> prob, min |-> lo, max |-> hi,
     mut_power |-> power, mut_replace_prob |-> rprob, set |-> set, probs |-> probs]

NoParameters == TraitParameters("none", 0, 0, 0, 0, 0, <<>>, <<>>)

IntParameters(prob, lo, hi, power, rprob) ==
    TraitParameters("int", prob, lo, hi, power, rprob, <<>>, <<>>)

BoolParameters(prob) == TraitParameters("bool", prob, 0, 0, 0, 0, <<>>, <<>>)

FloatParameters(prob, lo, hi, power, rprob) ==
    TraitParameters("float", prob, lo, hi, power, rprob, <<>>, <<>>)

StringParameters(prob, set, probs) ==
    TraitParameters("string", prob, 0, 0, 0, 0, set, probs)

\* A run configured without traits.
TableNone == [n \in Names |-> NoParameters]

\* Int "i" in [IntMin, IntMax], mutated with probability 1/RealUnit and then
\* replaced with probability 1/RealUnit.
TableInt ==
    [n \in Names |->
        IF n = "i" THEN IntParameters(1, IntMin, IntMax, IntPower, 1) ELSE NoParameters]

\* Real "f" in [0.0, 1.0] with mut_power 1.0.
TableReal ==
    [n \in Names |->
        IF n = "f" THEN FloatParameters(1, 0, RealUnit, RealUnit, 1) ELSE NoParameters]

\* Bool "b" and Enum "s"; the Enum has mutation probability 0.
TableBoolEnum ==
    [n \in Names |->
        IF n = "b" THEN BoolParameters(1)
        ELSE IF n = "s" THEN StringParameters(0, <<"p", "q">>, <<1, 1>>)
        ELSE NoParameters]

\* A table of another configuration: "f" is an Int here (always 0), and "x"
\* has a kind string that is none of the four kinds.
TableOther ==
    [n \in Names |->
        IF n = "f" THEN IntParameters(1, 0, 0, 0, 1)
        ELSE IF n = "x" THEN TraitParameters("weird", 1, 0, 0, 0, 0, <<>>, <<>>)
        ELSE NoParameters]

TableNames(tp) == {n \in Names : tp[n].type # "none"}

\* ------------------------------------------------------------ arithmetic
Abs(n) == IF n < 0 THEN -n ELSE n

\* C++ integer division by a positive divisor: truncation toward zero.
IntDiv(a, b) == IF a >= 0 THEN a \div b ELSE -((-a) \div b)

\* n / d rounded to the nearest integer, ties to even (d > 0): the rounding
\* of a double operation whose exact result is off the grid.
RoundDiv(n, d) ==
    LET q == n \div d
        r == n % d
    IN  IF 2 * r < d THEN q
        ELSE IF 2 * r > d THEN q + 1
        ELSE IF q % 2 = 0 THEN q ELSE q + 1

\* Utils.h Scale(a, a_min, a_max, a_tr_min, a_tr_max): a mapped linearly from
\* [a_min, a_max] to [a_tr_min, a_tr_max].
Scale(a, a_min, a_max, a_tr_min, a_tr_max) ==
    a_tr_min + RoundDiv((a_tr_max - a_tr_min) * (a - a_min), a_max - a_min)

\* Utils.h Clamp(x, min, max).
Clamp(x, lo, hi) == IF x < lo THEN lo ELSE IF x > hi THEN hi ELSE x

\* ------------------------------------------------------------------- RNG
\* What a call draws from a_RNG while it handles one trait: c1, c2, c3 are
\* the outcomes of its successive coins, a_RNG.RandFloat() < p, and k is the
\* value it draws: RandInt(lo, hi), Roulette(probs), the RandFloat() that is
\* scaled (grid units of [0, 1)), or RandFloatSigned() (grid units of
\* [-1, 1)).  A coin the call does not toss is FALSE, a value it does not
\* draw is 0.
Draw(c1, c2, c3, k) == [c1 |-> c1, c2 |-> c2, c3 |-> c3, k |-> k]

NoDraw == Draw(FALSE, FALSE, FALSE, 0)

NoDraws == [n \in Names |-> NoDraw]

\* RandFloat(): a double in [0, 1).
UnitDraws == 0..(RealUnit - 1)

\* RandFloatSigned(): a double in [-1, 1).
SignedDraws == (-RealUnit)..(RealUnit - 1)

\* RandInt(lo, hi): an int in [lo, hi].
RandInt(lo, hi) == lo..hi

\* Roulette(probs): a 0-based index of a positive weight.
Roulette(probs) == {j \in 0..(Len(probs) - 1) : probs[j + 1] > 0}

\* The outcomes of a_RNG.RandFloat() < prob, prob in grid units: true needs a
\* draw below prob, false a draw in [0, 1) that is not.
Coin(prob) == {c \in BOOLEAN : IF c THEN prob > 0 ELSE prob < RealUnit}

\* The outcomes of a_RNG.RandFloat() < 0.5.
CoinHalf == BOOLEAN

\* --------------------------------------------------------- Gene::InitTraits
\* The draws InitTraits makes for one spec.
InitDraws(p) ==
    IF p.type = "int" THEN {Draw(FALSE, FALSE, FALSE, k) : k \in RandInt(p.min, p.max)}
    ELSE IF p.type = "bool" THEN {Draw(c, FALSE, FALSE, 0) : c \in CoinHalf}
    ELSE IF p.type = "float" THEN {Draw(FALSE, FALSE, FALSE, k) : k \in UnitDraws}
    ELSE IF p.type = "string" THEN {Draw(FALSE, FALSE, FALSE, k) : k \in Roulette(p.probs)}
    ELSE {NoDraw}

\* The TraitType t that one iteration of InitTraits builds.
InitValue(p, d) ==
    IF p.type = "int" THEN IntVal(d.k)
    ELSE IF p.type = "bool" THEN BoolVal(d.c1)
    ELSE IF p.type = "float" THEN DoubleVal(Scale(d.k, 0, RealUnit, p.min, p.max))
    ELSE IF p.type = "string" THEN StringVal(p.set[d.k + 1])
    ELSE DefaultTrait

\* InitTraits with the "string" kind forgotten: no entry is made for an Enum.
InitTraitsBagNoString(bag, tp, d) ==
    [n \in Names |->
        IF tp[n].type \in {"none", "string"} THEN bag[n] ELSE InitValue(tp[n], d[n])]

\* InitTraits making an entry only for the four kinds it knows.
InitTraitsBagKnownKinds(bag, tp, d) ==
    [n \in Names |->
        IF tp[n].type \in {"int", "bool", "float", "string"}
        THEN InitValue(tp[n], d[n]) ELSE bag[n]]

\* The bag after InitTraits(tp, a_RNG): m_Traits[name] = tr for every spec.
InitTraitsBag(bag, tp, d) ==
    [n \in Names |-> IF tp[n].type = "none" THEN bag[n] ELSE InitValue(tp[n], d[n])]

\* --------------------------------------------------------- Gene::MateTraits
\* The type check left out.
TypesMatchAlways(mine, yours) == TRUE

\* !(mine.type() == yours.type()) is false.
TypesMatch(mine, yours) == mine.type = yours.type

\* (a_RNG.RandFloat() < 0.5)? mine : yours
MatePick(c, mine, yours) == IF c THEN mine ELSE yours

\* The Int average rounded down instead of toward zero.
MateAverageIntFloor(m1, m2) == (m1 + m2) \div 2

\* (m1+m2)/2 on ints.
MateAverageInt(m1, m2) == IntDiv(m1 + m2, 2)

\* (m1+m2)/2.0 on doubles.
MateAverageDouble(m1, m2) == RoundDiv(m1 + m2, 2)

\* The draws MateTraits makes for one trait of the other bag.
MateDraws(yours) ==
    IF yours.type = "none" THEN {NoDraw}
    ELSE IF yours.type = "bool"
         THEN {Draw(c1, c2, FALSE, 0) : c1 \in CoinHalf, c2 \in CoinHalf}
    ELSE IF yours.type = "string"
         THEN {Draw(TRUE, c2, c3, 0) : c2 \in CoinHalf, c3 \in CoinHalf}
              \cup {Draw(FALSE, FALSE, c3, 0) : c3 \in CoinHalf}
    ELSE {Draw(TRUE, c2, FALSE, 0) : c2 \in CoinHalf} \cup {Draw(FALSE, FALSE, FALSE, 0)}

\* One iteration of the loop of MateTraits, for the name n of the other bag.
MateOne(bag, n, yours, d) ==
    LET mine == Subscript(bag, n)
        inserted == [bag EXCEPT ![n] = mine]
        first ==
            IF d.c1 THEN MatePick(d.c2, mine, yours)
            ELSE IF mine.type = "int" THEN IntVal(MateAverageInt(mine.i, yours.i))
            ELSE IF mine.type = "bool" THEN MatePick(d.c2, mine, yours)
            ELSE mine
        last ==
            IF mine.type = "double" THEN DoubleVal(MateAverageDouble(mine.d, yours.d))
            ELSE IF mine.type = "string" THEN MatePick(d.c3, mine, yours)
            ELSE first
    IN  IF ~TypesMatch(mine, yours)
        THEN [bag |-> inserted, err |-> "runtime_error"]
        ELSE [bag |-> [bag EXCEPT ![n] = last], err |-> "none"]

RECURSIVE MateFrom(_, _, _, _)
\* The loop of MateTraits from the k-th name on; a throw ends it.
MateFrom(bag, t, d, k) ==
    IF k > Len(NameOrder) THEN [bag |-> bag, err |-> "none"]
    ELSE LET n == NameOrder[k]
         IN  IF t[n].type = "none" THEN MateFrom(bag, t, d, k + 1)
             ELSE LET r == MateOne(bag, n, t[n], d[n])
                  IN  IF r.err # "none" THEN r ELSE MateFrom(r.bag, t, d, k + 1)

\* ------------------------------------------------------- Gene::MutateTraits
\* The draws MutateTraits makes for one spec.
MutateDraws(p) ==
    IF p.type = "int"
    THEN {Draw(FALSE, FALSE, FALSE, 0) : c1 \in Coin(p.m_MutationProb) \ {TRUE}}
         \cup {Draw(TRUE, TRUE, FALSE, k) :
                 c1 \in Coin(p.m_MutationProb) \ {FALSE},
                 c2 \in Coin(p.mut_replace_prob) \ {FALSE},
                 k \in RandInt(p.min, p.max)}
         \cup {Draw(TRUE, FALSE, FALSE, k) :
                 c1 \in Coin(p.m_MutationProb) \ {FALSE},
                 c2 \in Coin(p.mut_replace_prob) \ {TRUE},
                 k \in RandInt(-p.mut_power, p.mut_power)}
    ELSE IF p.type = "bool"
    THEN {Draw(FALSE, FALSE, FALSE, 0) : c1 \in Coin(p.m_MutationProb) \ {TRUE}}
         \cup {Draw(TRUE, c2, FALSE, 0) :
                 c1 \in Coin(p.m_MutationProb) \ {FALSE}, c2 \in CoinHalf}
    ELSE IF p.type = "float"
    THEN {Draw(FALSE, FALSE, FALSE, 0) : c1 \in Coin(p.m_MutationProb) \ {TRUE}}
         \cup {Draw(TRUE, TRUE, FALSE, k) :
                 c1 \in Coin(p.m_MutationProb) \ {FALSE},
                 c2 \in Coin(p.mut_replace_prob) \ {FALSE},
                 k \in UnitDraws}
         \cup {Draw(TRUE, FALSE, FALSE, k) :
                 c1 \in Coin(p.m_MutationProb) \ {FALSE},
                 c2 \in Coin(p.mut_replace_prob) \ {TRUE},
                 k \in SignedDraws}
    ELSE IF p.type = "string" THEN {Draw(FALSE, FALSE, FALSE, k) : k \in Roulette(p.probs)}
    ELSE {NoDraw}

\* The perturbed Int stored without the Clamp.
ModifyIntNoClamp(val, k, p) == val + k

\* val += RandInt(-mut_power, mut_power); Clamp(val, min, max)
ModifyInt(val, k, p) == Clamp(val + k, p.min, p.max)

\* val += RandFloatSigned() * mut_power; Clamp(val, min, max)
ModifyDouble(val, k, p) == Clamp(val + RoundDiv(k * p.mut_power, RealUnit), p.min, p.max)

\* The Bool stored back without the negation.
FlipBoolKeep(val) == val

\* val = !val
FlipBool(val) == ~val

\* One iteration of the loop of MutateTraits, for the spec p of the name n.
\* bs::get<T> throws bad_get when the variant holds another alternative.
MutateOne(bag, n, p, d) ==
    LET cur == Subscript(bag, n)
        inserted == [bag EXCEPT ![n] = cur]
        ok(v) == [bag |-> [bag EXCEPT ![n] = v], err |-> "none"]
        skip == [bag |-> bag, err |-> "none"]
        bad == [bag |-> inserted, err |-> "bad_get"]
    IN  IF p.type = "int"
        THEN IF d.c1
             THEN IF d.c2
                  THEN ok(IntVal(d.k))
                  ELSE IF cur.type = "int" THEN ok(IntVal(ModifyInt(cur.i, d.k, p))) ELSE bad
             ELSE skip
        ELSE IF p.type = "bool"
        THEN IF d.c1
             THEN IF d.c2
                  THEN IF cur.type = "bool" THEN ok(BoolVal(FlipBool(cur.b))) ELSE bad
                  ELSE skip
             ELSE skip
        ELSE IF p.type = "float"
        THEN IF d.c1
             THEN IF d.c2
                  THEN ok(DoubleVal(Scale(d.k, 0, RealUnit, p.min, p.max)))
                  ELSE IF cur.type = "double"
                       THEN ok(DoubleVal(ModifyDouble(cur.d, d.k, p)))
                       ELSE bad
             ELSE skip
        ELSE IF p.type = "string" THEN ok(StringVal(p.set[d.k + 1]))
        ELSE skip

RECURSIVE MutateFrom(_, _, _, _)
\* The loop of MutateTraits from the k-th name on; a throw ends it.
MutateFrom(bag, tp, d, k) ==
    IF k > Len(NameOrder) THEN [bag |-> bag, err |-> "none"]
    ELSE LET n == NameOrder[k]
         IN  IF tp[n].type = "none" THEN MutateFrom(bag, tp, d, k + 1)
             ELSE LET r == MutateOne(bag, n, tp[n], d[n])
                  IN  IF r.err # "none" THEN r ELSE MutateFrom(r.bag, tp, d, k + 1)

\* -------------------------------------------------- Gene::GetTraitDistances
\* A distance is a double, in grid units; NoDistance marks a name with no
\* entry in the returned map.
NoDistance == -1

NoDistances == [n \in Names |-> NoDistance]

\* The Int distance without the abs.
DistanceIntSigned(m, y) == RealUnit * (m - y)

\* abs(bs::get<int>(mine) - bs::get<int>(yours))
DistanceInt(m, y) == RealUnit * Abs(m - y)

\* abs(bs::get<double>(mine) - bs::get<double>(yours))
DistanceDouble(m, y) == Abs(m - y)

\* matching is 0, non-matching is 1
DistanceMatch(same) == IF same THEN 0 ELSE RealUnit

\* One iteration of the loop of GetTraitDistances, for the name n of other.
DistanceOne(bag, dist, n, yours) ==
    LET mine == Subscript(bag, n)
        inserted == [bag EXCEPT ![n] = mine]
        entry ==
            IF mine.type = "int" THEN DistanceInt(mine.i, yours.i)
            ELSE IF mine.type = "bool" THEN DistanceMatch(mine.b = yours.b)
            ELSE IF mine.type = "double" THEN DistanceDouble(mine.d, yours.d)
            ELSE DistanceMatch(mine.s = yours.s)
    IN  IF ~TypesMatch(mine, yours)
        THEN [bag |-> inserted, err |-> "runtime_error", dist |-> NoDistances]
        ELSE [bag |-> inserted, err |-> "none", dist |-> [dist EXCEPT ![n] = entry]]

RECURSIVE DistancesFrom(_, _, _, _)
\* The loop of GetTraitDistances from the k-th name on; a throw ends it and
\* nothing is returned.
DistancesFrom(bag, dist, other, k) ==
    IF k > Len(NameOrder) THEN [bag |-> bag, err |-> "none", dist |-> dist]
    ELSE LET n == NameOrder[k]
         IN  IF other[n].type = "none" THEN DistancesFrom(bag, dist, other, k + 1)
             ELSE LET r == DistanceOne(bag, dist, n, other[n])
                  IN  IF r.err # "none" THEN r
                      ELSE DistancesFrom(r.bag, r.dist, other, k + 1)

\* ----------------------------------------------------------------- genes
\* LinkGene::LinkGene(a_InID, a_OutID, a_InnovID, a_Wgt, a_Recurrent)
LinkGene(a_InID, a_OutID, a_InnovID, a_Wgt, a_Recurrent) ==
    [m_FromNeuronID |-> a_InID, m_ToNeuronID |-> a_OutID, m_InnovationID |-> a_InnovID,
     m_Weight |-> a_Wgt, m_IsRecurrent |-> a_Recurrent]

\* NeuronGene::NeuronGene(a_type, a_id, a_splity)
NeuronGene(a_type, a_id, a_splity) ==
    [m_ID |-> a_id, m_Type |-> a_type, m_SplitY |-> a_splity,
     m_A |-> 0, m_B |-> 0, m_TimeConstant |-> 0, m_Bias |-> 0,
     m_ActFunction |-> "UNSIGNED_SIGMOID", x |-> 0, y |-> 0]

\* SetWeight assigning the wrong member.
LinkSetWeightInnovation(l, a_Weight) == [l EXCEPT !.m_InnovationID = a_Weight]

\* LinkGene::SetWeight(a_Weight)
LinkSetWeight(l, a_Weight) == [l EXCEPT !.m_Weight = a_Weight]

\* NeuronGene::Init(a_A, a_B, a_TimeConstant, a_Bias, a_ActFunc)
NeuronInit(g, a) ==
    [g EXCEPT !.m_A = a[1], !.m_B = a[2], !.m_TimeConstant = a[3], !.m_Bias = a[4],
              !.m_ActFunction = a[5]]

\* operator<, operator>, operator!=, operator== of LinkGene
OpLess(a_lhs, a_rhs) == a_lhs.m_InnovationID < a_rhs.m_InnovationID

OpGreater(a_lhs, a_rhs) == a_lhs.m_InnovationID > a_rhs.m_InnovationID

OpNotEqual(a_lhs, a_rhs) == a_lhs.m_InnovationID # a_rhs.m_InnovationID

\* operator== comparing every member of the two genes.
OpEqualMembers(a_lhs, a_rhs) == a_lhs = a_rhs

OpEqual(a_lhs, a_rhs) == a_lhs.m_InnovationID = a_rhs.m_InnovationID

\* The weights handed to SetWeight.
Weights == {0, 1}

\* The arguments handed to NeuronGene::Init.
ActivationInputs == {<<1, 0, 0, 0, "TANH">>}

\* ----------------------------------------------------------------- state
VARIABLES
    links,      \* the LinkGene objects: their own members
    neurons,    \* the NeuronGene objects: their own members
    m_Traits,   \* Gene::m_Traits of every link and neuron gene
    params,     \* the trait tables of the run's configuration
    built,      \* the genes whose bag InitTraits made and that met only such bags since
    call,       \* the last call: its name, its object and its argument
    rng,        \* what the last call drew from a_RNG, per trait name
    ret         \* what the last call returned or threw

vars == <<links, neurons, m_Traits, params, built, call, rng, ret>>

LinkIds == DOMAIN links

NeuronIds == DOMAIN neurons

GeneIds == DOMAIN m_Traits

Call(op, self, other, tp) == [op |-> op, self |-> self, other |-> other, tp |-> tp]

NoCompare == [lt |-> FALSE, gt |-> FALSE, ne |-> FALSE, eq |-> FALSE]

Return(err, dist, cmp) == [err |-> err, dist |-> dist, cmp |-> cmp]

Void == Return("none", NoDistances, NoCompare)

\* --------------------------------------------------------------- actions
\* g.InitTraits(params[t], a_RNG) with the draws d.
InitTraits(g, t, d) ==
    /\ m_Traits' = [m_Traits EXCEPT ![g] = InitTraitsBag(@, params[t], d)]
    /\ built' = built \cup {g}
    /\ call' = Call("InitTraits", g, "", t)
    /\ rng' = d
    /\ ret' = Void
    /\ UNCHANGED <<links, neurons, params>>

\* g.MateTraits(h.m_Traits, a_RNG) with the draws d.
MateTraits(g, h, d) ==
    LET r == MateFrom(m_Traits[g], m_Traits[h], d, 1)
    IN  /\ m_Traits' = [m_Traits EXCEPT ![g] = r.bag]
        /\ built' = IF h \in built THEN built ELSE built \ {g}
        /\ call' = Call("MateTraits", g, h, 0)
        /\ rng' = d
        /\ ret' = Return(r.err, NoDistances, NoCompare)
        /\ UNCHANGED <<links, neurons, params>>

\* g.MutateTraits(params[t], a_RNG) with the draws d.
MutateTraits(g, t, d) ==
    LET r == MutateFrom(m_Traits[g], params[t], d, 1)
    IN  /\ m_Traits' = [m_Traits EXCEPT ![g] = r.bag]
        /\ call' = Call("MutateTraits", g, "", t)
        /\ rng' = d
        /\ ret' = Return(r.err, NoDistances, NoCompare)
        /\ UNCHANGED <<links, neurons, params, built>>

\* g.GetTraitDistances(h.m_Traits)
GetTraitDistances(g, h) ==
    LET r == DistancesFrom(m_Traits[g], NoDistances, m_Traits[h], 1)
    IN  /\ m_Traits' = [m_Traits EXCEPT ![g] = r.bag]
        /\ built' = IF h \in built THEN built ELSE built \ {g}
        /\ call' = Call("GetTraitDistances", g, h, 0)
        /\ rng' = NoDraws
        /\ ret' = Return(r.err, r.dist, NoCompare)
        /\ UNCHANGED <<links, neurons, params>>

\* links[l].SetWeight(w)
SetWeight(l, w) ==
    /\ links' = [links EXCEPT ![l] = LinkSetWeight(@, w)]
    /\ call' = Call("SetWeight", l, "", 0)
    /\ rng' = NoDraws
    /\ ret' = Void
    /\ UNCHANGED <<neurons, m_Traits, params, built>>

\* neurons[g].Init(a)
Init_(g, a) ==
    /\ neurons' = [neurons EXCEPT ![g] = NeuronInit(@, a)]
    /\ call' = Call("Init", g, "", 0)
    /\ rng' = NoDraws
    /\ ret' = Void
    /\ UNCHANGED <<links, m_Traits, params, built>>

\* links[a] < links[b], links[a] > links[b], links[a] != links[b], links[a] == links[b]
Compare(a, b) ==
    /\ call' = Call("Compare", a, b, 0)
    /\ rng' = NoDraws
    /\ ret' = Return("none", NoDistances,
                     [lt |-> OpLess(links[a], links[b]), gt |-> OpGreater(links[a], links[b]),
                      ne |-> OpNotEqual(links[a], links[b]), eq |-> OpEqual(links[a], links[b])])
    /\ UNCHANGED <<links, neurons, m_Traits, params, built>>

\* The draws of one Init call: one Draw per trait name.
InitDrawsOf(t) ==
    {[b |-> db, f |-> df, i |-> di, s |-> ds, x |-> dx] :
        db \in InitDraws(params[t]["b"]), df \in InitDraws(params[t]["f"]), di \in InitDraws(params[t]["i"]),
        ds \in InitDraws(params[t]["s"]), dx \in InitDraws(params[t]["x"])}

\* The draws of one Mate call: one Draw per trait name.
MateDrawsOf(h) ==
    {[b |-> db, f |-> df, i |-> di, s |-> ds, x |-> dx] :
        db \in MateDraws(m_Traits[h]["b"]), df \in MateDraws(m_Traits[h]["f"]), di \in MateDraws(m_Traits[h]["i"]),
        ds \in MateDraws(m_Traits[h]["s"]), dx \in MateDraws(m_Traits[h]["x"])}

\* The draws of one Mutate call: one Draw per trait name.
MutateDrawsOf(t) ==
    {[b |-> db, f |-> df, i |-> di, s |-> ds, x |-> dx] :
        db \in MutateDraws(params[t]["b"]), df \in MutateDraws(params[t]["f"]), di \in MutateDraws(params[t]["i"]),
        ds \in MutateDraws(params[t]["s"]), dx \in MutateDraws(params[t]["x"])}

\* The trait operators of the Gene base class.
NextTraits ==
    \/ \E g \in GeneIds, t \in 1..Len(params) : \E d \in InitDrawsOf(t) : InitTraits(g, t, d)
    \/ \E g \in GeneIds : \E h \in GeneIds \ {g} : \E d \in MateDrawsOf(h) : MateTraits(g, h, d)
    \/ \E g \in GeneIds, t \in 1..Len(params) : \E d \in MutateDrawsOf(t) : MutateTraits(g, t, d)
    \/ \E g \in GeneIds : \E h \in GeneIds \ {g} : GetTraitDistances(g, h)

\* The operations of LinkGene.
NextLink ==
    \/ \E l \in LinkIds, w \in Weights : SetWeight(l, w)
    \/ \E a \in LinkIds, b \in LinkIds : Compare(a, b)

\* The operation of NeuronGene.
NextNeuron == \E g \in NeuronIds, a \in ActivationInputs : Init_(g, a)

Next == NextTraits \/ NextLink \/ NextNeuron

\* ------------------------------------------------------- specifications
\* The state after the genes of the given constructor arguments are built,
\* under the configuration ps.
Constructed(ls, ns, ps) ==
    /\ links = ls
    /\ neurons = ns
    /\ m_Traits = [g \in (DOMAIN ls) \cup (DOMAIN ns) |-> EmptyBag]
    /\ params = ps
    /\ built = {}
    /\ call = Call("", "", "", 0)
    /\ rng = NoDraws
    /\ ret = Void

OneLink == [l \in {"L1"} |-> LinkGene(1, 2, 1, 0, FALSE)]

OneNeuron == [g \in {"N1"} |-> NeuronGene("HIDDEN", 3, 1)]

\* One link and one neuron gene with an Int trait, and every operation.
Init == Constructed(OneLink, OneNeuron, <<TableInt>>)

Spec == Init /\ [][Next]_vars

\* The trait operators in a well-formed run: every gene of the run uses the
\* one trait table of the run's configuration.
InitOneTable ==
    \E ps \in {<<TableInt>>, <<TableReal>>, <<TableBoolEnum>>} :
        Constructed(OneLink, OneNeuron, ps)

SpecTraits == InitOneTable /\ [][NextTraits]_vars

\* The trait operators in a run that uses the tables of two configurations
\* on the same genes.
InitMixed == Constructed(OneLink, OneNeuron, <<TableReal, TableOther>>)

SpecMixed == InitMixed /\ [][NextTraits]_vars

\* Constructor arguments of link genes: every innovation id with the same
\* endpoints, and one gene of innovation id 1 with other endpoints, weight
\* and recurrence flag.
LinkArgs == {LinkGene(1, 2, v, 0, FALSE) : v \in 1..MaxInnov}

OtherLinkArgs == {LinkGene(2, 2, 1, 1, TRUE)}

\* A run without traits: three link genes of any innovation ids.
InitCompare ==
    \E a \in LinkArgs \cup OtherLinkArgs, b \in LinkArgs, c \in LinkArgs :
        Constructed([l \in {"L1", "L2", "L3"} |->
                        IF l = "L1" THEN a ELSE IF l = "L2" THEN b ELSE c],
                    OneNeuron, <<TableNone>>)

SpecCompare == InitCompare /\ [][NextLink]_vars

\* ---------------------------------------------------------------- claims
\* The table of a well-formed run.
RunTable == params[1]

\* The value of a trait lies within [min, max] of its Int or Real spec.
WithinSpec(p, v) ==
    /\ p.type = "int" => v.type = "int" /\ p.min <= v.i /\ v.i <= p.max
    /\ p.type = "float" => v.type = "double" /\ p.min <= v.d /\ v.d <= p.max

\* C1: every Int and Real trait of a bag made by InitTraits lies within
\* [min, max] of its spec after any sequence of MutateTraits calls with the
\* same table and MateTraits calls against bags made the same way.
C1_TraitsWithinBounds ==
    \A g \in built : \A n \in Names : WithinSpec(RunTable[n], m_Traits[g][n])

\* C1 witness: the perturb branch of MutateTraits added +mut_power to an Int
\* trait of a bag that InitTraits made, and the trait stands at max.
C1_Witness ==
    /\ call.op = "MutateTraits" /\ call.self \in built /\ ret.err = "none"
    /\ RunTable["i"].type = "int"
    /\ rng["i"].c1 /\ ~rng["i"].c2
    /\ rng["i"].k = RunTable["i"].mut_power
    /\ m_Traits[call.self]["i"] = IntVal(RunTable["i"].max)

\* Some name is a key of both bags with values of different kinds.
KindMismatch(mine, yours) ==
    \E n \in Keys(mine) \cap Keys(yours) : mine[n].type # yours[n].type

\* C2: MateTraits and GetTraitDistances called on two bags in which a shared
\* name holds values of different kinds throw the kind-mismatch error, return
\* no distances, and leave every such value of the own bag as it was.
C2_KindMismatchThrows ==
    [][(/\ call'.op \in {"MateTraits", "GetTraitDistances"}
        /\ KindMismatch(m_Traits[call'.self], m_Traits[call'.other]))
       => /\ ret'.err = "runtime_error"
          /\ ret'.dist = NoDistances
          /\ \A n \in Keys(m_Traits[call'.self]) \cap Keys(m_Traits[call'.other]) :
                m_Traits[call'.self][n].type # m_Traits[call'.other][n].type
                => m_Traits'[call'.self][n] = m_Traits[call'.self][n]]_vars

\* C2 witness: MateTraits threw on a bag whose "f" is a Real against a bag
\* whose "f" is an Int.
C2_Witness ==
    /\ call.op = "MateTraits" /\ ret.err = "runtime_error"
    /\ m_Traits[call.self]["f"].type = "double"
    /\ m_Traits[call.other]["f"].type = "int"

\* C3: the identity fields of every link gene (from, to, innovation id,
\* recurrence flag) and neuron gene (id, type, split depth) have the values
\* given to the constructor, whatever operations ran since.
C3_IdentityFrozen ==
    /\ \A l \in LinkIds :
        /\ links[l].m_FromNeuronID = OneLink[l].m_FromNeuronID
        /\ links[l].m_ToNeuronID = OneLink[l].m_ToNeuronID
        /\ links[l].m_InnovationID = OneLink[l].m_InnovationID
        /\ links[l].m_IsRecurrent = OneLink[l].m_IsRecurrent
    /\ \A g \in NeuronIds :
        /\ neurons[g].m_ID = OneNeuron[g].m_ID
        /\ neurons[g].m_Type = OneNeuron[g].m_Type
        /\ neurons[g].m_SplitY = OneNeuron[g].m_SplitY

\* C3 witness: SetWeight changed the weight of the link, Init changed the
\* activation of the neuron, both genes have traits and the last call was a
\* MateTraits that changed nothing of the identity.
C3_Witness ==
    /\ C3_IdentityFrozen
    /\ links["L1"].m_Weight # OneLink["L1"].m_Weight
    /\ neurons["N1"].m_ActFunction = "TANH"
    /\ built = {"L1", "N1"}
    /\ call.op = "MateTraits" /\ ret.err = "none"

\* The link gene objects of the state.
LinkObjects == {links[l] : l \in LinkIds}

\* C4: operator< on link genes is irreflexive, antisymmetric and transitive
\* and is the integer order of the innovation ids; exactly one of a<b, a==b,
\* a>b holds; a!=b is the negation of a==b; genes of the same innovation id
\* are equal whatever their endpoints, weight and recurrence flag; and the
\* comparison operators return just that.
C4_OrderByInnovation ==
    /\ \A a \in LinkObjects, b \in LinkObjects, c \in LinkObjects :
        /\ ~OpLess(a, a)
        /\ ~(OpLess(a, b) /\ OpLess(b, a))
        /\ OpLess(a, b) /\ OpLess(b, c) => OpLess(a, c)
        /\ OpLess(a, b) <=> a.m_InnovationID < b.m_InnovationID
        /\ Cardinality({k \in 1..3 : <<OpLess(a, b), OpEqual(a, b), OpGreater(a, b)>>[k]}) = 1
        /\ OpNotEqual(a, b) <=> ~OpEqual(a, b)
        /\ a.m_InnovationID = b.m_InnovationID => OpEqual(a, b)
    /\ call.op = "Compare" =>
        LET a == links[call.self]
            b == links[call.other]
        IN  /\ ret.cmp.lt <=> a.m_InnovationID < b.m_InnovationID
            /\ ret.cmp.gt <=> a.m_InnovationID > b.m_InnovationID
            /\ ret.cmp.eq <=> a.m_InnovationID = b.m_InnovationID
            /\ ret.cmp.ne <=> ~ret.cmp.eq

\* C4 witness: two link genes of the same innovation id and different
\* endpoints, weight and recurrence flag were compared and found equal, with
\* a third gene of a larger innovation id in the state.
C4_Witness ==
    /\ call.op = "Compare" /\ ret.cmp.eq /\ ~ret.cmp.lt /\ ~ret.cmp.gt
    /\ links[call.self].m_FromNeuronID # links[call.other].m_FromNeuronID
    /\ links[call.self].m_Weight # links[call.other].m_Weight
    /\ links[call.self].m_IsRecurrent # links[call.other].m_IsRecurrent
    /\ \E l \in LinkIds : OpLess(links[call.self], links[l])

\* Two bags have the same keys, and values of the same kind under each key.
SameKeysAndKinds(a, b) == \A n \in Names : a[n].type = b[n].type

\* C5: for two bags of the same keys and kinds, a.GetTraitDistances(b)
\* returns the map that b.GetTraitDistances(a) returns.
C5_DistanceSymmetric ==
    (/\ call.op = "GetTraitDistances"
     /\ SameKeysAndKinds(m_Traits[call.self], m_Traits[call.other]))
    => /\ ret.err = "none"
       /\ ret.dist = DistancesFrom(m_Traits[call.other], NoDistances,
                                   m_Traits[call.self], 1).dist

\* C5 witness: GetTraitDistances returned a positive distance for the Int
\* trait of two bags of the same keys and kinds.
C5_Witness ==
    /\ call.op = "GetTraitDistances" /\ ret.err = "none"
    /\ SameKeysAndKinds(m_Traits[call.self], m_Traits[call.other])
    /\ m_Traits[call.self]["i"].type = "int"
    /\ ret.dist["i"] > 0

\* The step is a MateTraits call that did not throw, and it took the
\* averaging branch (its first coin came out false) for the name n, which
\* holds an Int in both bags.
MateAveragedInt(n) ==
    /\ call'.op = "MateTraits" /\ ret'.err = "none"
    /\ m_Traits[call'.self][n].type = "int"
    /\ m_Traits[call'.other][n].type = "int"
    /\ ~rng'[n].c1

\* C6 as claimed: the averaging branch of MateTraits stores floor((a+b)/2)
\* for an Int trait of parent values a and b.
C6_AverageIsFloor ==
    [][\A n \in Names :
        MateAveragedInt(n) =>
            m_Traits'[call'.self][n] =
                IntVal((m_Traits[call'.self][n].i + m_Traits[call'.other][n].i) \div 2)]_vars

\* C6 amended: the averaging branch stores (a+b)/2 rounded toward zero: half
\* the sum when the sum is even, and otherwise the neighbour of half the sum
\* that is nearer to zero.
C6_AverageTruncates ==
    [][\A n \in Names :
        MateAveragedInt(n) =>
            LET sum == m_Traits[call'.self][n].i + m_Traits[call'.other][n].i
                res == m_Traits'[call'.self][n]
            IN  /\ res.type = "int"
                /\ sum % 2 = 0 => 2 * res.i = sum
                /\ sum % 2 = 1 /\ sum > 0 => 2 * res.i = sum - 1
                /\ sum % 2 = 1 /\ sum < 0 => 2 * res.i = sum + 1]_vars

\* C6 witness: MateTraits averaged the Int trait against a parent value of
\* -1 and stored 0: the own value was 0 (sum -1) or 1 (sum 0).
C6_Witness ==
    /\ call.op = "MateTraits" /\ ret.err = "none"
    /\ ~rng["i"].c1
    /\ m_Traits[call.other]["i"] = IntVal(-1)
    /\ m_Traits[call.self]["i"] = IntVal(0)

\* C7: when the first coin of MateTraits selects the pick branch for a trait
\* of two bags that InitTraits made, the value stored for it is the own value
\* or the other bag's value, for every kind of trait.
C7_PickStoresAParent ==
    [][\A n \in Names :
        (/\ call'.op = "MateTraits" /\ ret'.err = "none"
         /\ call'.self \in built /\ call'.other \in built
         /\ m_Traits[call'.other][n].type # "none"
         /\ rng'[n].c1)
        => m_Traits'[call'.self][n] \in
              {m_Traits[call'.self][n], m_Traits[call'.other][n]}]_vars

\* The step is a MutateTraits call whose mutation draw triggered for the
\* Bool spec of the name n, the bag holding a Bool under n.
MutateTriggeredBool(n) ==
    /\ call'.op = "MutateTraits"
    /\ params[call'.tp][n].type = "bool"
    /\ m_Traits[call'.self][n].type = "bool"
    /\ rng'[n].c1

\* C8 as claimed: whenever the mutation draw triggers for a Bool trait, the
\* value after MutateTraits is the negation of the value before.
C8_TriggerFlips ==
    [][\A n \in Names :
        MutateTriggeredBool(n) =>
            m_Traits'[call'.self][n] = BoolVal(~m_Traits[call'.self][n].b)]_vars

\* C8 amended: when the mutation draw triggers for a Bool trait, a second
\* draw decides: below 0.5 the value is negated, otherwise it is unchanged.
C8_TriggerFlipsOnSecondDraw ==
    [][\A n \in Names :
        MutateTriggeredBool(n) =>
            m_Traits'[call'.self][n] =
                IF rng'[n].c2 THEN BoolVal(~m_Traits[call'.self][n].b)
                ELSE m_Traits[call'.self][n]]_vars

\* C8 witness: the mutation draw and the second draw both triggered for the
\* Bool trait "b" of a bag InitTraits made, and "b" is now true.
C8_Witness ==
    /\ call.op = "MutateTraits" /\ call.self \in built /\ ret.err = "none"
    /\ params[call.tp]["b"].type = "bool"
    /\ rng["b"].c1 /\ rng["b"].c2
    /\ m_Traits[call.self]["b"] = BoolVal(TRUE)

\* C9: a trait of a bag that InitTraits made keeps its value over
\* MutateTraits when its mutation-probability draw did not trigger, whatever
\* its kind; a spec of mutation probability 0 never triggers.
C9_NoTriggerNoChange ==
    [][\A n \in Names :
        (/\ call'.op = "MutateTraits" /\ call'.self \in built
         /\ (~rng'[n].c1 \/ params[call'.tp][n].m_MutationProb = 0))
        => m_Traits'[call'.self][n] = m_Traits[call'.self][n]]_vars

\* C10: a bag that InitTraits made has exactly the names of the spec table as
\* its keys, after any sequence of MutateTraits, MateTraits and
\* GetTraitDistances calls within the run; and InitTraits leaves under every
\* name of the table the value it drew for that name.
C10_KeysAreTableNames ==
    /\ \A g \in built : Keys(m_Traits[g]) = TableNames(RunTable)
    /\ call.op = "InitTraits" =>
        \A n \in TableNames(RunTable) :
            m_Traits[call.self][n] = InitValue(RunTable[n], rng[n])

\* C10 witness: a bag with the two keys of the Bool and Enum table was mated
\* with another such bag.
C10_Witness ==
    /\ call.op = "MateTraits" /\ ret.err = "none"
    /\ call.self \in built /\ call.other \in built
    /\ Keys(m_Traits[call.self]) = {"b", "s"}

\* A spec whose kind string is none of "int", "bool", "float", "string".
UnknownKind(p) == p.type \notin {"none", "int", "bool", "float", "string"}

\* C11 as stated: InitTraits leaves no key for a name whose spec has an
\* unknown kind, and MutateTraits does not create a key for such a name.
C11_UnknownKindNoKey ==
    [][\A n \in Names :
        /\ (call'.op = "InitTraits" /\ UnknownKind(params[call'.tp][n]))
            => n \notin Keys(m_Traits'[call'.self])
        /\ (call'.op = "MutateTraits" /\ UnknownKind(params[call'.tp][n]))
            => (n \in Keys(m_Traits'[call'.self]) => n \in Keys(m_Traits[call'.self]))]_vars

\* C11 as amended: for a name whose spec has an unknown kind, InitTraits
\* stores the default-constructed value under that name, so the bag does have
\* a key for it; MutateTraits neither creates a key for such a name nor
\* changes the value stored under it.
C11_UnknownKindStoresDefault ==
    [][\A n \in Names :
        /\ (call'.op = "InitTraits" /\ UnknownKind(params[call'.tp][n]))
            => /\ n \in Keys(m_Traits'[call'.self])
               /\ m_Traits'[call'.self][n] = DefaultTrait
        /\ (call'.op = "MutateTraits" /\ UnknownKind(params[call'.tp][n]))
            => m_Traits'[call'.self][n] = m_Traits[call'.self][n]]_vars

\* C11 witness: MutateTraits ran with the table whose "x" has an unknown
\* kind on a bag that InitTraits made with that table, and "x" is still the
\* default-constructed value.
C11_Witness ==
    /\ call.op = "MutateTraits" /\ call.tp = 2 /\ ret.err = "none"
    /\ UnknownKind(params[2]["x"])
    /\ call.self \in built
    /\ Keys(m_Traits[call.self]) = TableNames(params[2])
    /\ m_Traits[call.self]["x"] = DefaultTrait

\* The entry the distance mapping is to hold for two values of one kind.
ExpectedDistance(mine, yours, d) ==
    IF mine.type = "int" THEN d = RealUnit * Abs(mine.i - yours.i)
    ELSE IF mine.type = "bool" THEN d = (IF mine.b = yours.b THEN 0 ELSE RealUnit)
    ELSE IF mine.type = "string" THEN d = (IF mine.s = yours.s THEN 0 ELSE RealUnit)
    ELSE d # NoDistance

\* C12: GetTraitDistances leaves both bags as they were; a name of the other
\* bag that this bag lacks raises no error, so the call fails only on a name
\* of both bags; and the mapping it returns has an entry exactly for the
\* names of both bags, |a - b| for an Int, 0 if equal else 1 for a Bool or
\* an Enum.
C12_DistancesOfCommonNames ==
    [][call'.op = "GetTraitDistances" =>
        LET a == m_Traits[call'.self]
            b == m_Traits[call'.other]
            common == Keys(a) \cap Keys(b)
        IN  /\ m_Traits' = m_Traits
            /\ (\A n \in common : a[n].type = b[n].type) => ret'.err = "none"
            /\ ret'.err = "none" =>
                 \A n \in Names :
                    IF n \in common THEN ExpectedDistance(a[n], b[n], ret'.dist[n])
                    ELSE ret'.dist[n] = NoDistance]_vars

====
